---- MODULE Spec2Model ----
(***************************************************************************)
(* egui_vulkano: the Painter of src/lib.rs as a state machine.             *)
(*                                                                         *)
(* The state is the Painter's cached texture binding (texture_version,     *)
(* set), the position inside one Painter::draw invocation (pc), the        *)
(* locals of that invocation (clipped_meshes, verts, indices, clips,       *)
(* offsets, idx) and what it has done to the graphics API so far (calls,   *)
(* draws, result).  The graphics API is the environment: each fallible     *)
(* call succeeds or fails nondeterministically.                            *)
(***************************************************************************)
EXTENDS Integers, Sequences, FiniteSets

(* ---------------------------- bounds ---------------------------------- *)

\* atlas versions presented by egui are 0..MaxVersion
MaxVersion == 1

\* a frame holds at most MaxMeshes clipped meshes
MaxMeshes == 2

\* a mesh holds at most MaxVerts vertices and MaxIndices indices
MaxVerts == 1

MaxIndices == 1

\* f32 coordinates are modelled as fixed point: the integer n stands for n / FScale
FScale == 4

\* the font atlas is at most MaxDim pixels wide and MaxDim pixels high
MaxDim == 2

(* ---------------------------- values ---------------------------------- *)

Versions == 0 .. MaxVersion

\* Option<Arc<dyn DescriptorSet>>: None, or the binding built from the atlas
\* of version v
NoneSet == [some |-> FALSE, version |-> -1]

SomeSet(v) == [some |-> TRUE, version |-> v]

\* egui::Rect {min, max}, coordinates in fixed point
Rect(x0, y0, x1, y1) == [min |-> [x |-> x0, y |-> y0], max |-> [x |-> x1, y |-> y1]]

RectWidth(r) == r.max.x - r.min.x

RectHeight(r) == r.max.y - r.min.y

\* the clip rectangles a frame may use: (0,0) extent 50 by 50, and a
\* rectangle with a negative, fractional origin and fractional extent
\* (min (-0.75, 1.5), max (2.0, 3.25) when FScale = 4)
ClipRects == { Rect(0, 0, 50 * FScale, 50 * FScale), Rect(-3, 6, 8, 13) }

\* an epaint::Vertex; position, uv and colour are fixed by the place of the
\* vertex in the frame (mesh k, vertex j) so that no two vertices are equal
EVertex(k, j) ==
    [pos |-> <<k, j>>, uv |-> <<j, k>>, color |-> <<(50 * k + j) % 256, j, k, 255>>]

\* impl From<&epaint::Vertex> for Vertex: pos and uv are copied, each colour
\* channel c becomes the fraction c / 255 (a pair numerator, denominator)
VertexFrom(v) ==
    [pos |-> v.pos, uv |-> v.uv, color |-> [ch \in 1 .. 4 |-> <<v.color[ch], 255>>]]

\* a ClippedMesh(clip, mesh) as tessellation emits it: mesh k of the frame
\* with nv vertices and ni indices
ClippedMesh(k, nv, ni, clip) ==
    [clip |-> clip,
     vertices |-> [j \in 1 .. nv |-> EVertex(k, j)],
     indices |-> [j \in 1 .. ni |-> IF nv = 0 THEN j - 1 ELSE (j + k) % nv]]

MeshShapes == [nv : 0 .. MaxVerts, ni : 0 .. MaxIndices, clip : ClipRects]

\* egui_ctx.tessellate(clipped_shapes): any sequence of at most MaxMeshes meshes
Frames ==
    UNION { { [k \in 1 .. n |-> ClippedMesh(k, s[k].nv, s[k].ni, s[k].clip)] :
                s \in [1 .. n -> MeshShapes] } : n \in 0 .. MaxMeshes }

(* ------------------------ Painter::update_set -------------------------- *)

\* the steps of update_set that can fail, in program order
UpdateSetSteps == <<"ImmutableImage::from_iter", "flush", "ImageView::new",
                    "add_sampled_image", "build">>

\* the error update_set returns when step i fails
UpdateSetErrors == <<
    <<"UpdateSetFailed", "CreateTextureFailed", "CreateImageFailed">>,
    <<"UpdateSetFailed", "CreateTextureFailed", "FlushFailed">>,
    <<"UpdateSetFailed", "CreateImageViewFailed">>,
    <<"UpdateSetFailed", "IncorrectDefinition">>,
    <<"UpdateSetFailed", "BuildFailed">> >>

\* fail_at = 0: every step succeeds; fail_at = i: step i fails
UpdateSetFailures == 0 .. Len(UpdateSetSteps)

\* update_set without the early return on an unchanged version
update_set_always_rebuilds(tv, s, v, fail_at) ==
    IF fail_at = 0
    THEN [texture_version |-> v, set |-> SomeSet(v), result |-> <<"Ok">>,
          calls |-> UpdateSetSteps]
    ELSE [texture_version |-> v, set |-> s, result |-> UpdateSetErrors[fail_at],
          calls |-> SubSeq(UpdateSetSteps, 1, fail_at)]

\* update_set with the cached (tv, s), the atlas version v and the outcome
\* fail_at of the graphics API: the new cached state, the result and the
\* graphics-API calls made
update_set(tv, s, v, fail_at) ==
    IF v = tv
    THEN [texture_version |-> tv, set |-> s, result |-> <<"Ok">>, calls |-> <<>>]
    ELSE IF fail_at = 0
         THEN [texture_version |-> v, set |-> SomeSet(v), result |-> <<"Ok">>,
               calls |-> UpdateSetSteps]
         ELSE [texture_version |-> v, set |-> s, result |-> UpdateSetErrors[fail_at],
               calls |-> SubSeq(UpdateSetSteps, 1, fail_at)]

(* --------------------- Painter::draw: packing loop --------------------- *)

\* the vectors of draw before its loop: all empty
EmptyPack == [verts |-> <<>>, indices |-> <<>>, clips |-> <<>>, offsets |-> <<>>]

\* the loop body without the skip of empty meshes
PackMesh_no_skip(acc, cm) ==
    [verts |-> acc.verts \o [j \in 1 .. Len(cm.vertices) |-> VertexFrom(cm.vertices[j])],
     indices |-> acc.indices \o cm.indices,
     clips |-> Append(acc.clips, cm.clip),
     offsets |-> Append(acc.offsets, <<Len(acc.verts), Len(acc.indices)>>)]

\* the loop body with the offsets recorded after the appends
PackMesh_offsets_late(acc, cm) ==
    IF Len(cm.vertices) = 0 \/ Len(cm.indices) = 0
    THEN acc
    ELSE [verts |-> acc.verts \o [j \in 1 .. Len(cm.vertices) |-> VertexFrom(cm.vertices[j])],
          indices |-> acc.indices \o cm.indices,
          clips |-> Append(acc.clips, cm.clip),
          offsets |-> Append(acc.offsets, <<Len(acc.verts) + Len(cm.vertices),
                                            Len(acc.indices) + Len(cm.indices)>>)]

\* the loop body with each index moved by the mesh's vertex offset
PackMesh_remaps_indices(acc, cm) ==
    IF Len(cm.vertices) = 0 \/ Len(cm.indices) = 0
    THEN acc
    ELSE [verts |-> acc.verts \o [j \in 1 .. Len(cm.vertices) |-> VertexFrom(cm.vertices[j])],
          indices |-> acc.indices \o [j \in 1 .. Len(cm.indices) |->
                                        cm.indices[j] + Len(acc.verts)],
          clips |-> Append(acc.clips, cm.clip),
          offsets |-> Append(acc.offsets, <<Len(acc.verts), Len(acc.indices)>>)]

\* one iteration of `for cm in clipped_meshes.iter()`: a mesh with no
\* vertices or no indices is skipped; any other mesh has its start offsets
\* recorded, its vertices converted and appended, its indices appended and
\* its clip rectangle recorded
PackMesh(acc, cm) ==
    IF Len(cm.vertices) = 0 \/ Len(cm.indices) = 0
    THEN acc
    ELSE [verts |-> acc.verts \o [j \in 1 .. Len(cm.vertices) |-> VertexFrom(cm.vertices[j])],
          indices |-> acc.indices \o cm.indices,
          clips |-> Append(acc.clips, cm.clip),
          offsets |-> Append(acc.offsets, <<Len(acc.verts), Len(acc.indices)>>)]

RECURSIVE PackLoop(_, _, _)
\* the loop over meshes[k ..], starting from the vectors acc
PackLoop(meshes, k, acc) ==
    IF k > Len(meshes)
    THEN acc
    ELSE PackLoop(meshes, k + 1, PackMesh(acc, meshes[k]))

\* the loop without the closing push of the end offsets
Pack_no_closing_push(meshes) == PackLoop(meshes, 1, EmptyPack)

\* the loop and the closing offsets.push((verts.len(), indices.len()))
Pack(meshes) ==
    LET p == PackLoop(meshes, 1, EmptyPack) IN
      [p EXCEPT !.offsets = Append(p.offsets, <<Len(p.verts), Len(p.indices)>>)]

(* --------------------- Painter::draw: draw loop ------------------------ *)

\* Rust's `x as i32` for an f32 x: truncation toward zero (the cast also
\* saturates at the ends of i32, which no coordinate of the model reaches)
AsI32(x) == IF x >= 0 THEN x \div FScale ELSE -((-x) \div FScale)

\* Rust's `x as u32` for an f32 x: truncation toward zero, a negative x
\* giving 0 (the cast also saturates at the upper end of u32)
AsU32(x) == IF x >= 0 THEN x \div FScale ELSE 0

\* the Scissor with the origin rounded down instead of toward zero
ScissorOf_floor(clip) ==
    [origin |-> <<clip.min.x \div FScale, clip.min.y \div FScale>>,
     dimensions |-> <<AsU32(RectWidth(clip)), AsU32(RectHeight(clip))>>]

\* the Scissor built from a clip rectangle
ScissorOf(clip) ==
    [origin |-> <<AsI32(clip.min.x), AsI32(clip.min.y)>>,
     dimensions |-> <<AsU32(RectWidth(clip)), AsU32(RectHeight(clip))>>]

\* the `?` on draw_indexed dropped: the error is noted and the loop goes on
DrawIndexedReturn_goes_on(ok, i) ==
    IF ok
    THEN [pc |-> "draw_indexed", idx |-> i + 1, result |-> <<>>]
    ELSE [pc |-> "draw_indexed", idx |-> i + 1, result |-> <<"DrawIndexedFailed">>]

\* builder.draw_indexed(..)? in iteration i: on success the loop goes on to
\* the next clip, on failure draw returns DrawIndexedFailed
DrawIndexedReturn(ok, i) ==
    IF ok
    THEN [pc |-> "draw_indexed", idx |-> i + 1, result |-> <<>>]
    ELSE [pc |-> "done", idx |-> i, result |-> <<"DrawIndexedFailed">>]

\* BufferSlice::slice(range) on a buffer of len elements is Some exactly
\* when the range lies within the buffer
SliceIsSome(len, range) == range[1] <= range[2] /\ range[2] <= len

(* ------------------------ create_font_texture -------------------------- *)

\* the u8 values a pixel of the atlas may have
PixelValues == {0, 10, 255}

\* an epaint::Texture: width, height and width * height single-channel pixels
Textures ==
    UNION { [width : {w}, height : {h}, pixels : [1 .. w * h -> PixelValues]] :
              w \in 0 .. MaxDim, h \in 0 .. MaxDim }

\* the Texture of a state in which create_font_texture is not looked at
NoTexture == [width |-> 0, height |-> 0, pixels |-> <<>>]

\* no image has been created
NoImage == [dimensions |-> [width |-> 0, height |-> 0, array_layers |-> 0],
            format |-> "none", data |-> <<>>]

RECURSIVE FlatMap4_opaque_alpha(_)
\* the expansion with the fourth channel set to 255
FlatMap4_opaque_alpha(pixels) ==
    IF pixels = <<>>
    THEN <<>>
    ELSE <<Head(pixels), Head(pixels), Head(pixels), 255>>
           \o FlatMap4_opaque_alpha(Tail(pixels))

RECURSIVE FlatMap4(_)
\* texture.pixels.iter().flat_map(|&r| vec![r, r, r, r]).collect()
FlatMap4(pixels) ==
    IF pixels = <<>>
    THEN <<>>
    ELSE <<Head(pixels), Head(pixels), Head(pixels), Head(pixels)>>
           \o FlatMap4(Tail(pixels))

\* the steps of create_font_texture that can fail, with their errors
CreateFontTextureErrors == << <<"CreateImageFailed">>, <<"FlushFailed">> >>

\* create_font_texture(queue, texture) when step fail_at fails (0: none):
\* the result and the image handed to ImmutableImage::from_iter (width and
\* height are cast to u32, which changes no value the model reaches)
create_font_texture(tex, fail_at) ==
    IF fail_at = 0
    THEN [result |-> <<"Ok">>,
          image |-> [dimensions |-> [width |-> tex.width, height |-> tex.height,
                                     array_layers |-> 1],
                     format |-> "R8G8B8A8Unorm",
                     data |-> FlatMap4(tex.pixels)]]
    ELSE [result |-> CreateFontTextureErrors[fail_at], image |-> NoImage]

(* ---------------------------- state ----------------------------------- *)

VARIABLES
    texture_version,  \* Painter.texture_version
    set,              \* Painter.set
    pc,               \* position in Painter::draw: "idle" before any call,
                      \* "next_subpass", "pack", "create_buffers",
                      \* "draw_indexed", "done" after a return, "panicked"
    atlas,            \* egui_ctx.texture().version of the latest draw; -1 before
    clipped_meshes,   \* the frame's tessellated meshes
    verts, indices, clips, offsets,  \* locals of draw
    vertex_buf, index_buf,  \* contents of the frame's GPU buffers
    idx,              \* the draw loop's position (0-based)
    calls,            \* graphics-API calls made by the latest draw, in order
    draws,            \* arguments of the draw_indexed calls of the latest draw
    result,           \* <<>> while running, else what the latest draw returned
    texture,          \* the epaint::Texture given to create_font_texture
    image,            \* the image create_font_texture created
    font_result,      \* <<>> before create_font_texture ran, else its result
    hpc,              \* position of the demo's event loop: "off" (not running),
                      \* "event" (waiting for an event), in a redraw "recreate",
                      \* "acquire", "update_textures", "record", "wait",
                      \* "submit", or "exited", "panicked"
    recreate_swapchain,   \* main's flag of that name
    previous_frame_end,   \* "Now" or "Fence": the variant of the FrameEndFuture
    wait_for_last_frame,  \* the redraw's local of that name
    hlog              \* what the latest redraw did to the graphics API, in order

\* the state of Painter::draw
draw_vars == <<texture_version, set, pc, atlas, clipped_meshes, verts, indices, clips,
               offsets, vertex_buf, index_buf, idx, calls, draws, result>>

\* the state of one create_font_texture call
font_vars == <<texture, image, font_result>>

\* the state of the demo's event loop
harness_vars == <<hpc, recreate_swapchain, previous_frame_end, wait_for_last_frame, hlog>>

vars == <<draw_vars, font_vars, harness_vars>>

\* the demo's event loop is not looked at
HarnessIdle ==
    /\ hpc = "off"
    /\ recreate_swapchain = FALSE
    /\ previous_frame_end = "Now"
    /\ wait_for_last_frame = FALSE
    /\ hlog = <<>>

\* no create_font_texture call is looked at
FontIdle == texture = NoTexture /\ image = NoImage /\ font_result = <<>>

\* Painter::new succeeded
Init ==
    /\ texture_version = 0
    /\ set = NoneSet
    /\ pc = "idle"
    /\ atlas = -1
    /\ clipped_meshes = <<>>
    /\ verts = <<>>
    /\ indices = <<>>
    /\ clips = <<>>
    /\ offsets = <<>>
    /\ vertex_buf = <<>>
    /\ index_buf = <<>>
    /\ idx = 0
    /\ calls = <<>>
    /\ draws = <<>>
    /\ result = <<>>
    /\ FontIdle
    /\ HarnessIdle

\* draw is called with a frame and the atlas at version v; its first
\* statement is self.update_set(egui_ctx)?
Draw_update_set ==
    /\ pc = "idle"
    /\ \E v \in Versions, fail_at \in UpdateSetFailures, frame \in Frames :
         LET r == update_set(texture_version, set, v, fail_at) IN
           /\ atlas' = v
           /\ clipped_meshes' = frame
           /\ texture_version' = r.texture_version
           /\ set' = r.set
           /\ calls' = r.calls
           /\ IF r.result = <<"Ok">>
              THEN pc' = "next_subpass" /\ result' = <<>>
              ELSE pc' = "done" /\ result' = r.result
    /\ verts' = <<>>
    /\ indices' = <<>>
    /\ clips' = <<>>
    /\ offsets' = <<>>
    /\ vertex_buf' = <<>>
    /\ index_buf' = <<>>
    /\ idx' = 0
    /\ draws' = <<>>
    /\ UNCHANGED <<font_vars, harness_vars>>

\* what the steps of draw after update_set leave as it is
painter == <<texture_version, set, atlas, clipped_meshes, font_vars, harness_vars>>

packed == <<verts, indices, clips, offsets>>

buffers == <<vertex_buf, index_buf>>

\* draw without its next_subpass call
Draw_next_subpass_left_out ==
    /\ pc = "next_subpass"
    /\ pc' = "pack"
    /\ UNCHANGED <<painter, packed, buffers, idx, calls, draws, result>>

\* builder.next_subpass(Inline)?
Draw_next_subpass ==
    /\ pc = "next_subpass"
    /\ calls' = Append(calls, "next_subpass")
    /\ \E ok \in BOOLEAN :
         IF ok
         THEN pc' = "pack" /\ result' = result
         ELSE pc' = "done" /\ result' = <<"NextSubpassFailed">>
    /\ UNCHANGED <<painter, packed, buffers, idx, draws>>

\* the packing loop, and the return when nothing was retained
Draw_pack ==
    /\ pc = "pack"
    /\ LET p == Pack(clipped_meshes) IN
         /\ verts' = p.verts
         /\ indices' = p.indices
         /\ clips' = p.clips
         /\ offsets' = p.offsets
         /\ IF Len(p.clips) = 0
            THEN pc' = "done" /\ result' = <<"Ok">>
            ELSE pc' = "create_buffers" /\ result' = result
    /\ UNCHANGED <<painter, buffers, idx, calls, draws>>

\* the steps of create_buffers that can fail, in program order
CreateBuffersSteps == <<"CpuAccessibleBuffer::from_iter(vertex)",
                        "CpuAccessibleBuffer::from_iter(index)">>

\* let (vertex_buf, index_buf) = self.create_buffers((verts, indices))?
Draw_create_buffers ==
    /\ pc = "create_buffers"
    /\ \E fail_at \in 0 .. Len(CreateBuffersSteps) :
         IF fail_at = 0
         THEN /\ calls' = calls \o CreateBuffersSteps
              /\ vertex_buf' = verts
              /\ index_buf' = indices
              /\ pc' = "draw_indexed"
              /\ result' = result
         ELSE /\ calls' = calls \o SubSeq(CreateBuffersSteps, 1, fail_at)
              /\ UNCHANGED buffers
              /\ pc' = "done"
              /\ result' = <<"CreateBuffersFailed">>
    \* (verts, indices) is moved into create_buffers and dropped there
    /\ verts' = <<>>
    /\ indices' = <<>>
    /\ UNCHANGED <<painter, clips, offsets, idx, draws>>

\* one iteration of `for (idx, clip) in clips.iter().enumerate()`, or the
\* Ok(()) after the last one
Draw_draw_indexed ==
    /\ pc = "draw_indexed"
    /\ IF idx >= Len(clips)
       THEN /\ pc' = "done"
            /\ result' = <<"Ok">>
            /\ UNCHANGED <<idx, calls, draws>>
       ELSE LET clip == clips[idx + 1]
                offset == offsets[idx + 1]
                end == offsets[idx + 2]
                vb == <<offset[1], end[1]>>
                ib == <<offset[2], end[2]>>
            IN IF \/ ~SliceIsSome(Len(vertex_buf), vb)
                  \/ ~SliceIsSome(Len(index_buf), ib)
                  \/ ~set.some
               THEN \* an unwrap() of None
                    /\ pc' = "panicked"
                    /\ result' = <<"panic">>
                    /\ UNCHANGED <<idx, calls, draws>>
               ELSE /\ calls' = Append(calls, "draw_indexed")
                    /\ draws' = Append(draws, [scissor |-> ScissorOf(clip),
                                               vb |-> vb, ib |-> ib, set |-> set])
                    /\ \E ok \in BOOLEAN :
                         LET r == DrawIndexedReturn(ok, idx) IN
                           pc' = r.pc /\ idx' = r.idx /\ result' = r.result
    /\ UNCHANGED <<painter, packed, buffers>>

\* control is back in the caller of draw: the locals of the invocation are
\* dropped; the Painter keeps texture_version and set
Draw_return ==
    /\ pc = "done"
    /\ pc' = "idle"
    /\ clipped_meshes' = <<>>
    /\ verts' = <<>>
    /\ indices' = <<>>
    /\ clips' = <<>>
    /\ offsets' = <<>>
    /\ vertex_buf' = <<>>
    /\ index_buf' = <<>>
    /\ idx' = 0
    /\ calls' = <<>>
    /\ draws' = <<>>
    /\ result' = <<>>
    /\ UNCHANGED <<texture_version, set, atlas, font_vars, harness_vars>>

Next ==
    \/ Draw_return
    \/ Draw_update_set
    \/ Draw_next_subpass
    \/ Draw_pack
    \/ Draw_create_buffers
    \/ Draw_draw_indexed

Spec == Init /\ [][Next]_vars

(* ------------- create_font_texture on its own: SpecFont ---------------- *)

\* a Painter that is not drawing
DrawIdle ==
    /\ texture_version = 0
    /\ set = NoneSet
    /\ pc = "idle"
    /\ atlas = -1
    /\ clipped_meshes = <<>>
    /\ verts = <<>>
    /\ indices = <<>>
    /\ clips = <<>>
    /\ offsets = <<>>
    /\ vertex_buf = <<>>
    /\ index_buf = <<>>
    /\ idx = 0
    /\ calls = <<>>
    /\ draws = <<>>
    /\ result = <<>>

\* create_font_texture is about to be called with any atlas texture
InitFont ==
    /\ DrawIdle
    /\ texture \in Textures
    /\ image = NoImage
    /\ font_result = <<>>
    /\ HarnessIdle

\* the call of create_font_texture
Font_create_font_texture ==
    /\ font_result = <<>>
    /\ \E fail_at \in 0 .. Len(CreateFontTextureErrors) :
         LET r == create_font_texture(texture, fail_at) IN
           /\ font_result' = r.result
           /\ image' = r.image
    /\ UNCHANGED <<texture, draw_vars, harness_vars>>

NextFont == Font_create_font_texture

SpecFont == InitFont /\ [][NextFont]_vars

(* ------------- the demo's event loop (examples/main.rs): SpecHarness ---- *)

\* the window, device, swapchain and Painter are set up and the event loop
\* starts
InitHarness ==
    /\ DrawIdle
    /\ FontIdle
    /\ hpc = "event"
    /\ recreate_swapchain = FALSE
    /\ previous_frame_end = "Now"
    /\ wait_for_last_frame = FALSE
    /\ hlog = <<>>

others == <<draw_vars, font_vars>>

\* Event::WindowEvent { event: WindowEvent::CloseRequested }
Harness_close_requested ==
    /\ hpc = "event"
    /\ hpc' = "exited"
    /\ UNCHANGED <<recreate_swapchain, previous_frame_end, wait_for_last_frame, hlog, others>>

\* Event::WindowEvent { event: WindowEvent::Resized(_) }
Harness_resized ==
    /\ hpc = "event"
    /\ recreate_swapchain' = TRUE
    /\ UNCHANGED <<hpc, previous_frame_end, wait_for_last_frame, hlog, others>>

\* Event::RedrawEventsCleared: the redraw begins (cleanup_finished)
Harness_redraw ==
    /\ hpc = "event"
    /\ hpc' = "recreate"
    /\ hlog' = <<>>
    /\ wait_for_last_frame' = FALSE
    /\ UNCHANGED <<recreate_swapchain, previous_frame_end, others>>

\* if recreate_swapchain { swapchain.recreate()...build() ... }
Harness_recreate ==
    /\ hpc = "recreate"
    /\ IF ~recreate_swapchain
       THEN hpc' = "acquire" /\ UNCHANGED <<recreate_swapchain, hlog>>
       ELSE \E out \in {"Ok", "UnsupportedDimensions", "Err"} :
              /\ hlog' = Append(hlog, "recreate:" \o out)
              /\ hpc' = CASE out = "Ok" -> "acquire"
                          [] out = "UnsupportedDimensions" -> "event"
                          [] OTHER -> "panicked"
              /\ recreate_swapchain' = (out # "Ok")
    /\ UNCHANGED <<previous_frame_end, wait_for_last_frame, others>>

\* OutOfDate handled without asking for a new swapchain
AcquireOutcome_flag_not_set(out, flag) ==
    CASE out = "Ok" -> [hpc |-> "update_textures", recreate_swapchain |-> flag]
      [] out = "Suboptimal" -> [hpc |-> "update_textures", recreate_swapchain |-> TRUE]
      [] out = "OutOfDate" -> [hpc |-> "event", recreate_swapchain |-> flag]
      [] OTHER -> [hpc |-> "panicked", recreate_swapchain |-> flag]

\* what the redraw does with the outcome of acquire_next_image
AcquireOutcome(out, flag) ==
    CASE out = "Ok" -> [hpc |-> "update_textures", recreate_swapchain |-> flag]
      [] out = "Suboptimal" -> [hpc |-> "update_textures", recreate_swapchain |-> TRUE]
      [] out = "OutOfDate" -> [hpc |-> "event", recreate_swapchain |-> TRUE]
      [] OTHER -> [hpc |-> "panicked", recreate_swapchain |-> flag]

\* swapchain::acquire_next_image(swapchain.clone(), None)
Harness_acquire ==
    /\ hpc = "acquire"
    /\ \E out \in {"Ok", "Suboptimal", "OutOfDate", "Err"} :
         LET r == AcquireOutcome(out, recreate_swapchain) IN
           /\ hlog' = Append(hlog, "acquire:" \o out)
           /\ hpc' = r.hpc
           /\ recreate_swapchain' = r.recreate_swapchain
    /\ UNCHANGED <<previous_frame_end, wait_for_last_frame, others>>

\* the command buffer builder is made, the egui frame is run and
\* egui_painter.update_textures(..).expect(..) is called
Harness_update_textures ==
    /\ hpc = "update_textures"
    /\ \E out \in {"Changed", "Unchanged", "Err"} :
         /\ hlog' = Append(hlog, "update_textures:" \o out)
         /\ hpc' = (IF out = "Err" THEN "panicked" ELSE "record")
         /\ wait_for_last_frame' = (out = "Changed")
    /\ UNCHANGED <<recreate_swapchain, previous_frame_end, others>>

\* begin_render_pass .. draw, egui_painter.draw(..), end_render_pass and
\* builder.build(), each unwrapped
Harness_record ==
    /\ hpc = "record"
    /\ \E ok \in BOOLEAN :
         /\ hlog' = Append(hlog, IF ok THEN "build" ELSE "record:Err")
         /\ hpc' = (IF ok THEN "wait" ELSE "panicked")
    /\ UNCHANGED <<recreate_swapchain, previous_frame_end, wait_for_last_frame, others>>

\* the fence is never waited on
FenceWaitDue_never(wait, frame_end) == FALSE

\* if wait_for_last_frame { if let Some(FenceSignalFuture(f)) = previous_frame_end
FenceWaitDue(wait, frame_end) == wait /\ frame_end = "Fence"

\* f.wait(None).unwrap() when it is due
Harness_wait ==
    /\ hpc = "wait"
    /\ IF FenceWaitDue(wait_for_last_frame, previous_frame_end)
       THEN \E ok \in BOOLEAN :
              /\ hlog' = Append(hlog, IF ok THEN "fence_wait" ELSE "fence_wait:Err")
              /\ hpc' = (IF ok THEN "submit" ELSE "panicked")
       ELSE hpc' = "submit" /\ hlog' = hlog
    /\ UNCHANGED <<recreate_swapchain, previous_frame_end, wait_for_last_frame, others>>

\* previous_frame_end.take() .. then_execute(..).unwrap()
\* .then_swapchain_present(..).then_signal_fence_and_flush() and the match
\* on its result
Harness_submit ==
    /\ hpc = "submit"
    /\ \E out \in {"ExecuteErr", "Ok", "OutOfDate", "Err"} :
         IF out = "ExecuteErr"
         THEN /\ hlog' = Append(hlog, "then_execute:Err")
              /\ hpc' = "panicked"
              /\ UNCHANGED <<recreate_swapchain, previous_frame_end>>
         ELSE /\ hlog' = hlog \o <<"then_execute", "then_swapchain_present", "flush:" \o out>>
              /\ hpc' = "event"
              /\ previous_frame_end' = (IF out = "Ok" THEN "Fence" ELSE "Now")
              /\ recreate_swapchain' = (IF out = "OutOfDate" THEN TRUE ELSE recreate_swapchain)
    /\ UNCHANGED <<wait_for_last_frame, others>>

NextHarness ==
    \/ Harness_close_requested
    \/ Harness_resized
    \/ Harness_redraw
    \/ Harness_recreate
    \/ Harness_acquire
    \/ Harness_update_textures
    \/ Harness_record
    \/ Harness_wait
    \/ Harness_submit

SpecHarness == InitHarness /\ [][NextHarness]_vars

(* ====================================================================== *)
(* Properties                                                             *)
(* ====================================================================== *)

\* a mesh the packing loop keeps: at least one vertex and one index
IsRetained(cm) == Len(cm.vertices) > 0 /\ Len(cm.indices) > 0

\* the meshes of a frame the claims call retained, in emission order
Retained(meshes) == SelectSeq(meshes, IsRetained)

\* r is an error returned by update_set
UpdateSetFailedIn(r) == Len(r) > 0 /\ r[1] = "UpdateSetFailed"

\* the latest step was a call of update_set that returned an error
UpdateSetFailedStep == pc = "idle" /\ pc' = "done" /\ UpdateSetFailedIn(result')

\* the graphics-API calls that allocate a vertex or index buffer
BufferCalls == { i \in 1 .. Len(calls) :
                   \E j \in 1 .. Len(CreateBuffersSteps) : calls[i] = CreateBuffersSteps[j] }

\* C1: when update_set fails at any step, texture_version and set are left
\* as they were before the call.
C1_FailureLeavesCache ==
    [][UpdateSetFailedStep => (texture_version' = texture_version /\ set' = set)]_vars

\* C2: between calls, the cached texture_version equals the atlas version
\* the held binding was built from.
C2_VersionMatchesBinding ==
    (pc \in {"idle", "done"} /\ set.some) => set.version = texture_version

\* C3: the first update_set call of a fresh Painter uploads the atlas and
\* builds the binding whatever the atlas version is, so that once it has
\* succeeded the Painter holds a binding; every later call with an atlas
\* version other than the cached one uploads too.
C3_FirstCallUploads ==
    [][/\ (pc = "idle" /\ atlas = -1 /\ pc' # "idle")
            => /\ Len(calls') > 0 /\ calls'[1] = UpdateSetSteps[1]
               /\ (pc' = "next_subpass" => set'.some /\ set'.version = atlas')
       /\ (pc = "idle" /\ atlas # -1 /\ pc' # "idle" /\ atlas' # texture_version)
            => Len(calls') > 0 /\ calls'[1] = UpdateSetSteps[1]]_vars

\* C4: an update_set call that follows a call with the same atlas version
\* creates no GPU image and no descriptor set (it makes no graphics-API
\* call at all), returns success and leaves texture_version and set as
\* they were.
C4_SameVersionIsNoOp ==
    [][(pc = "idle" /\ atlas # -1 /\ pc' # "idle" /\ atlas' = atlas)
         => /\ calls' = <<>>
            /\ pc' = "next_subpass"
            /\ texture_version' = texture_version
            /\ set' = set]_vars

\* C4 witness: a Painter that holds a binding was called again with the
\* version of the call before, and update_set returned Ok without a call.
C4_Witness == pc = "next_subpass" /\ set.some /\ calls = <<>>

\* C5 as claimed: for a frame whose meshes are all empty, draw creates no
\* vertex or index buffer, issues no draw_indexed call and returns success.
C5_EmptyFrameSucceeds ==
    (pc \in {"done", "panicked"} /\ Retained(clipped_meshes) = <<>>)
      => (BufferCalls = {} /\ draws = <<>> /\ result = <<"Ok">>)

\* C5 amended: for a frame whose meshes are all empty, draw creates no
\* vertex or index buffer and issues no draw_indexed call, and it returns
\* success unless update_set or next_subpass failed, whose error it returns.
C5_EmptyFrameNoBuffersNoDraws ==
    (pc # "idle" /\ Retained(clipped_meshes) = <<>>)
      => /\ BufferCalls = {}
         /\ draws = <<>>
         /\ pc # "panicked"
         /\ (pc = "done" =>
               \/ result = <<"Ok">> /\ calls # <<>> /\ calls[Len(calls)] = "next_subpass"
               \/ result = <<"NextSubpassFailed">>
               \/ UpdateSetFailedIn(result))

\* C5 witness: a frame of two empty meshes was drawn and draw returned Ok.
C5_Witness ==
    /\ pc = "done"
    /\ Len(clipped_meshes) = 2
    /\ Retained(clipped_meshes) = <<>>
    /\ result = <<"Ok">>

RECURSIVE SumVertices(_)
\* the number of vertices of the meshes ms together
SumVertices(ms) == IF ms = <<>> THEN 0 ELSE Len(Head(ms).vertices) + SumVertices(Tail(ms))

RECURSIVE SumIndices(_)
\* the number of indices of the meshes ms together
SumIndices(ms) == IF ms = <<>> THEN 0 ELSE Len(Head(ms).indices) + SumIndices(Tail(ms))

\* the vertex and index counts of the first k meshes of ms
CountsBefore(ms, k) ==
    <<SumVertices(SubSeq(ms, 1, k)), SumIndices(SubSeq(ms, 1, k))>>

\* the positions in calls of the graphics-API call named name
CallsOf(name) == { i \in 1 .. Len(calls) : calls[i] = name }

\* C6: after the packing loop the vertex vector is as long as the retained
\* meshes' vertex counts together and the index vector as their index
\* counts together (and so are the buffers built from them); the recorded
\* offsets never decrease in either component; one clip and one range is
\* recorded per retained mesh, the range of the k-th starting at the counts
\* of the retained meshes before it, so that skipped meshes add nothing and
\* the first retained mesh starts at (0, 0).
C6_PackedLengths ==
    Len(offsets) > 0 =>
      LET kept == Retained(clipped_meshes) IN
        /\ (pc = "create_buffers" \/ (pc = "done" /\ clips = <<>>))
             => /\ Len(verts) = SumVertices(kept)
                /\ Len(indices) = SumIndices(kept)
        /\ pc = "draw_indexed"
             => /\ Len(vertex_buf) = SumVertices(kept)
                /\ Len(index_buf) = SumIndices(kept)
        /\ Len(clips) = Len(kept)
        /\ Len(offsets) = Len(kept) + 1
        /\ \A k \in 1 .. Len(offsets) : offsets[k] = CountsBefore(kept, k - 1)
        /\ \A k \in 1 .. Len(offsets) - 1 :
             offsets[k][1] <= offsets[k + 1][1] /\ offsets[k][2] <= offsets[k + 1][2]
        /\ kept # <<>> => offsets[1] = <<0, 0>>

\* C6 witness: of two meshes the first is empty and the second is not; the
\* loop recorded one range, starting at (0, 0).
C6_Witness ==
    /\ pc = "create_buffers"
    /\ Len(clipped_meshes) = 2
    /\ ~IsRetained(clipped_meshes[1])
    /\ IsRetained(clipped_meshes[2])
    /\ Len(clips) = 1
    /\ offsets[1] = <<0, 0>>

\* the k-th draw_indexed call is the one for the k-th of the meshes kept:
\* its scissor comes from that mesh's clip and its slices are that mesh's
\* place in the frame's buffers
DrawIsFor(d, kept, k) ==
    /\ d.scissor = ScissorOf(kept[k].clip)
    /\ d.vb = <<CountsBefore(kept, k - 1)[1], CountsBefore(kept, k)[1]>>
    /\ d.ib = <<CountsBefore(kept, k - 1)[2], CountsBefore(kept, k)[2]>>

\* C7: when no step fails, draw issues exactly one draw_indexed call per
\* retained mesh, the k-th call being the one for the k-th retained mesh.
C7_OneDrawPerRetainedMesh ==
    (pc \in {"done", "panicked"} /\ result \in {<<"Ok">>, <<"panic">>}) =>
      LET kept == Retained(clipped_meshes) IN
        /\ Len(draws) = Len(kept)
        /\ \A k \in 1 .. Len(draws) : DrawIsFor(draws[k], kept, k)

\* C8: draw is fail-fast.  An error ends the invocation at once; the error
\* names the step that failed, which is the last graphics-API call made;
\* a draw_indexed failure on the k-th mesh leaves exactly k draw_indexed
\* calls issued; and no step other than the per-mesh draw_indexed is made
\* twice.
C8_FailFast ==
    /\ result \notin {<<>>, <<"Ok">>, <<"panic">>} => pc = "done"
    /\ UpdateSetFailedIn(result)
         => /\ Len(calls) \in 1 .. Len(UpdateSetSteps)
            /\ calls = SubSeq(UpdateSetSteps, 1, Len(calls))
            /\ result = UpdateSetErrors[Len(calls)]
            /\ draws = <<>>
    /\ result = <<"NextSubpassFailed">>
         => /\ calls[Len(calls)] = "next_subpass"
            /\ BufferCalls = {}
            /\ offsets = <<>>
            /\ draws = <<>>
    /\ result = <<"CreateBuffersFailed">>
         => /\ Len(calls) \in BufferCalls
            /\ CallsOf("draw_indexed") = {}
            /\ draws = <<>>
    /\ result = <<"DrawIndexedFailed">>
         => /\ calls[Len(calls)] = "draw_indexed"
            /\ Len(draws) = idx + 1
            /\ Cardinality(CallsOf("draw_indexed")) = idx + 1
            /\ idx + 1 <= Len(clips)
    /\ \A i, j \in 1 .. Len(calls) :
         (i < j /\ calls[i] = calls[j]) => calls[i] = "draw_indexed"
    /\ Cardinality(CallsOf("draw_indexed")) <= Len(clips)

\* C8 witness: draw_indexed failed on the first of two retained meshes and
\* draw returned with one draw_indexed call issued.
C8_Witness ==
    /\ pc = "done"
    /\ result = <<"DrawIndexedFailed">>
    /\ Len(clips) = 2
    /\ Len(draws) = 1

\* C9: within a draw invocation every draw_indexed call comes after the
\* next_subpass call, and next_subpass comes after an update_set that
\* succeeded (either without a call, the version being the cached one, or
\* with all its steps made); after a failed update_set neither next_subpass
\* nor draw_indexed is called.
C9_StepOrder ==
    /\ \A i \in CallsOf("draw_indexed") : \E j \in CallsOf("next_subpass") : j < i
    /\ \A j \in CallsOf("next_subpass") :
         /\ ~UpdateSetFailedIn(result)
         /\ texture_version = atlas
         /\ j = 1 \/ SubSeq(calls, 1, j - 1) = UpdateSetSteps
    /\ UpdateSetFailedIn(result)
         => CallsOf("next_subpass") = {} /\ CallsOf("draw_indexed") = {} /\ draws = <<>>
    /\ Len(draws) = Cardinality(CallsOf("draw_indexed"))

\* C9 witness: a draw rebuilt the binding, entered the subpass and issued
\* two draw_indexed calls.
C9_Witness ==
    /\ pc = "done"
    /\ result = <<"Ok">>
    /\ Len(draws) = 2
    /\ calls[1] = UpdateSetSteps[1]

\* the integer t is the fixed-point x with its fraction cut off
TruncatedTo(t, x) ==
    IF x >= 0
    THEN t >= 0 /\ t * FScale <= x /\ x < (t + 1) * FScale
    ELSE t <= 0 /\ (t - 1) * FScale < x /\ x <= t * FScale

\* C10: the scissor of the k-th draw comes from the k-th retained mesh's own
\* clip rectangle: the origin is its minimum corner and the dimensions are
\* its width and height, each made an integer by rounding toward zero; the
\* clip rectangle (0,0) with extent 50 by 50 gives origin (0,0) and
\* dimensions (50,50).
C10_ScissorFromOwnClip ==
    \A k \in 1 .. Len(draws) :
      LET clip == Retained(clipped_meshes)[k].clip
          sc == draws[k].scissor
      IN /\ TruncatedTo(sc.origin[1], clip.min.x)
         /\ TruncatedTo(sc.origin[2], clip.min.y)
         /\ sc.dimensions[1] >= 0 /\ sc.dimensions[2] >= 0
         /\ RectWidth(clip) >= 0 => TruncatedTo(sc.dimensions[1], RectWidth(clip))
         /\ RectHeight(clip) >= 0 => TruncatedTo(sc.dimensions[2], RectHeight(clip))
         /\ clip = Rect(0, 0, 50 * FScale, 50 * FScale)
              => sc = [origin |-> <<0, 0>>, dimensions |-> <<50, 50>>]

\* C10 witness: two draws were issued in one frame, the first with the
\* 50 by 50 clip and the second with the clip of negative, fractional origin.
C10_Witness ==
    /\ Len(draws) = 2
    /\ Retained(clipped_meshes)[1].clip = Rect(0, 0, 50 * FScale, 50 * FScale)
    /\ Retained(clipped_meshes)[2].clip.min.x < 0
    /\ draws[1].scissor # draws[2].scissor

\* the slice [range[1], range[2]) of a buffer
SliceOf(buf, range) == SubSeq(buf, range[1] + 1, range[2])

\* C13: the vertex slice bound by the k-th draw holds the k-th retained
\* mesh's vertices, converted (position and uv kept, each colour channel
\* over 255) and in order; the index slice holds that mesh's indices as they
\* were; so the index i of the mesh addresses the i-th vertex of the slice.
C13_SlicesHoldOwnMesh ==
    \A k \in 1 .. Len(draws) :
      LET m == Retained(clipped_meshes)[k]
          vs == SliceOf(vertex_buf, draws[k].vb)
          is == SliceOf(index_buf, draws[k].ib)
      IN /\ Len(vs) = Len(m.vertices)
         /\ \A j \in 1 .. Len(vs) :
              /\ vs[j].pos = m.vertices[j].pos
              /\ vs[j].uv = m.vertices[j].uv
              /\ \A ch \in 1 .. 4 : vs[j].color[ch] = <<m.vertices[j].color[ch], 255>>
         /\ Len(is) = Len(m.indices)
         /\ \A j \in 1 .. Len(is) :
              /\ is[j] = m.indices[j]
              /\ is[j] < Len(m.vertices) => vs[is[j] + 1].pos = m.vertices[is[j] + 1].pos

\* C13 witness: the second of two draws binds slices that start past the
\* first mesh's vertices and indices.
C13_Witness ==
    /\ Len(draws) = 2
    /\ draws[2].vb[1] > 0
    /\ draws[2].ib[1] > 0
    /\ Len(vertex_buf) = draws[2].vb[2]

\* C15: whenever draw reaches a draw_indexed call the Painter holds a
\* binding, so self.set.as_ref().unwrap() never meets None.
C15_BindingHeldAtDraw ==
    (pc = "draw_indexed" /\ idx < Len(clips)) => set.some

\* C16: after the packing loop offsets has one entry more than clips; the
\* offsets increase strictly in both components, so every range is
\* non-empty; every range lies within the frame's buffers; and both slices
\* of every iteration of the draw loop are Some.
C16_RangesInBounds ==
    Len(offsets) > 0 =>
      /\ Len(offsets) = Len(clips) + 1
      /\ \A k \in 1 .. Len(clips) :
           /\ offsets[k][1] < offsets[k + 1][1]
           /\ offsets[k][2] < offsets[k + 1][2]
           /\ pc = "draw_indexed"
                => /\ offsets[k + 1][1] <= Len(vertex_buf)
                   /\ offsets[k + 1][2] <= Len(index_buf)
                   /\ SliceIsSome(Len(vertex_buf), <<offsets[k][1], offsets[k + 1][1]>>)
                   /\ SliceIsSome(Len(index_buf), <<offsets[k][2], offsets[k + 1][2]>>)
      /\ \A k \in 1 .. Len(draws) :
           /\ draws[k].vb[1] < draws[k].vb[2] /\ draws[k].vb[2] <= Len(vertex_buf)
           /\ draws[k].ib[1] < draws[k].ib[2] /\ draws[k].ib[2] <= Len(index_buf)

\* C16 witness: the draw loop has issued the first of two draws and stands
\* before the second, whose range ends at the end of the buffers.
C16_Witness ==
    /\ pc = "draw_indexed"
    /\ idx = 1
    /\ Len(clips) = 2
    /\ Len(offsets) = 3
    /\ offsets[3][1] = Len(vertex_buf)

\* C14: for an atlas of width w and height h with pixels p,
\* create_font_texture uploads an image of dimensions w by h whose data is
\* 4 * len(p) long and has p[i] at the places 4i, 4i+1, 4i+2 and 4i+3, in
\* the order of p.
C14_PixelsReplicated ==
    font_result = <<"Ok">> =>
      /\ image.dimensions.width = texture.width
      /\ image.dimensions.height = texture.height
      /\ Len(image.data) = 4 * Len(texture.pixels)
      /\ \A i \in 0 .. Len(texture.pixels) - 1 :
           \A c \in 0 .. 3 : image.data[4 * i + c + 1] = texture.pixels[i + 1]

\* C14 witness: a 2 by 2 atlas whose first pixel is 10 and whose last is
\* 255 was uploaded; the image begins (10,10,10,10).
C14_Witness ==
    /\ font_result = <<"Ok">>
    /\ texture.width = 2 /\ texture.height = 2
    /\ texture.pixels[1] = 10 /\ texture.pixels[4] = 255
    /\ SubSeq(image.data, 1, 4) = <<10, 10, 10, 10>>
    /\ Len(image.data) = 16


(* ------------- properties of the demo's event loop ---------------------- *)

\* the latest redraw did e
InLog(e) == \E i \in DOMAIN hlog : hlog[i] = e

\* the latest redraw ended with e
LastInLog(e) == Len(hlog) > 0 /\ hlog[Len(hlog)] = e

\* the number of image acquisitions of the latest redraw
Acquisitions ==
    Cardinality({i \in DOMAIN hlog :
                   hlog[i] \in {"acquire:Ok", "acquire:Suboptimal", "acquire:OutOfDate", "acquire:Err"}})

\* C11: in a redraw where update_textures reports Changed, the fence of the
\* previous frame, when that frame ended with a fence future, is waited on
\* before the redraw's command buffer is submitted for execution; when it
\* reports Unchanged, or the previous frame ended without a fence, the redraw
\* waits on nothing.
C11_FenceWaitedBeforeSubmit ==
    /\ hpc = "submit" =>
         (InLog("fence_wait") <=>
            (InLog("update_textures:Changed") /\ previous_frame_end = "Fence"))
    /\ InLog("update_textures:Unchanged") =>
         ~InLog("fence_wait") /\ ~InLog("fence_wait:Err")
    /\ \A i, j \in DOMAIN hlog :
         (hlog[i] \in {"fence_wait", "fence_wait:Err"}
            /\ hlog[j] \in {"then_execute", "then_execute:Err"}) => i < j

\* a redraw saw the texture change, waited on the fence of the frame before
\* it and submitted its command buffer
C11_Witness ==
    /\ hlog = <<"acquire:Ok", "update_textures:Changed", "build", "fence_wait",
                "then_execute", "then_swapchain_present", "flush:Ok">>
    /\ previous_frame_end = "Fence"

\* the redraw that found the swapchain stale dropped its frame
StaleFrameDropped ==
    InLog("acquire:OutOfDate") =>
      /\ LastInLog("acquire:OutOfDate")
      /\ Acquisitions = 1
      /\ hpc \in {"event", "exited"}
      /\ recreate_swapchain
      /\ ~InLog("build") /\ ~InLog("then_execute") /\ ~InLog("then_swapchain_present")

\* no image is acquired while a rebuild of the swapchain is due: a redraw that
\* starts with the flag set reaches the acquisition only after recreate
\* succeeded
RebuiltBeforeAcquire ==
    /\ hpc = "acquire" => ~recreate_swapchain
    /\ (Acquisitions > 0 /\ Len(hlog) > 0 /\ hlog[1] \notin
          {"acquire:Ok", "acquire:Suboptimal", "acquire:OutOfDate", "acquire:Err"})
         => hlog[1] = "recreate:Ok"

\* the graphics API's failures other than the stale swapchain
ApiErrors ==
    {"recreate:Err", "acquire:Err", "update_textures:Err", "record:Err",
     "fence_wait:Err", "then_execute:Err", "flush:Err"}

\* C12 as stated: the redraw that finds the swapchain stale at the image
\* acquisition drops its frame (nothing built, submitted or presented, no
\* second acquisition), the swapchain is rebuilt at the start of the next
\* redraw before any image is acquired, and every other error of the graphics
\* API terminates the process.
C12_StaleDroppedErrorsTerminate ==
    /\ StaleFrameDropped
    /\ RebuiltBeforeAcquire
    /\ \A e \in ApiErrors : InLog(e) => hpc = "panicked"

\* C12 as the code has it: the stale frame is dropped and no image is acquired
\* before a rebuild succeeded (a rebuild reporting UnsupportedDimensions ends
\* the redraw and is tried again in the next one); an error of the rebuild,
\* the acquisition, update_textures, the recording, the fence wait or
\* then_execute terminates the process, while an error of
\* then_signal_fence_and_flush other than OutOfDate is printed, the frame end
\* becomes a now-future and the loop goes on.
C12_StaleDroppedFlushErrorsLogged ==
    /\ StaleFrameDropped
    /\ RebuiltBeforeAcquire
    /\ InLog("recreate:UnsupportedDimensions") =>
         /\ hlog = <<"recreate:UnsupportedDimensions">>
         /\ recreate_swapchain
         /\ hpc \in {"event", "exited"}
    /\ \A e \in ApiErrors \ {"flush:Err"} :
         InLog(e) => hpc = "panicked" /\ LastInLog(e)
    /\ InLog("flush:Err") =>
         /\ LastInLog("flush:Err")
         /\ hpc \in {"event", "exited"}
         /\ previous_frame_end = "Now"
    /\ hpc = "panicked" => \E e \in ApiErrors \ {"flush:Err"} : LastInLog(e)

\* a redraw rebuilt the swapchain, found it stale again at the acquisition and
\* dropped its frame, asking for another rebuild
C12_Witness ==
    /\ hlog = <<"recreate:Ok", "acquire:OutOfDate">>
    /\ hpc = "event"
    /\ recreate_swapchain

====
